---- MODULE Spec2Model ----
(* A model of cmd/snake/main.go of json_snake_case: the camel-case to
   snake-case conversion, the struct tag parser and printer, the synthesis
   of the json tag of a field, and the run of main from the flags to the
   written file.

   A Go string is a sequence of one-character strings (ASCII only: on ASCII
   the byte offsets of s[a:b] and the rune offsets of []rune(s) coincide).
   Offsets are Go's, counted from 0; Slice(s, a, b) is Go's s[a:b]. *)
EXTENDS Integers, Sequences, FiniteSets, TLC

\* ---------------------------------------------------------------- strings

UpperLetters ==
    <<"A", "B", "C", "D", "E", "F", "G", "H", "I", "J", "K", "L", "M", "N", "O", "P", "Q", "R", "S", "T", "U", "V", "W", "X", "Y", "Z">>

LowerLetters ==
    <<"a", "b", "c", "d", "e", "f", "g", "h", "i", "j", "k", "l", "m", "n", "o", "p", "q", "r", "s", "t", "u", "v", "w", "x", "y", "z">>

Digits ==
    <<"0", "1", "2", "3", "4", "5", "6", "7", "8", "9">>

Range(f) == {f[k] : k \in DOMAIN f}

\* Go's s[a:b], offsets from 0.
Slice(s, a, b) == SubSeq(s, a + 1, b)

\* Go's s[a:].
SliceFrom(s, a) == SubSeq(s, a + 1, Len(s))

\* unicode.IsUpper on an ASCII rune.
IsUpper(c) == c \in Range(UpperLetters)

ToLowerChar(c) ==
    IF IsUpper(c)
    THEN LowerLetters[CHOOSE k \in DOMAIN UpperLetters : UpperLetters[k] = c]
    ELSE c

\* strings.ToLower on an ASCII string.
ToLower(s) == [k \in 1..Len(s) |-> ToLowerChar(s[k])]

\* strings.HasPrefix.
HasPrefix(s, p) == Len(s) >= Len(p) /\ SubSeq(s, 1, Len(p)) = p

\* -------------------------------------------------------- CamelToSnake

commonInitialisms ==
    { <<"A", "P", "I">>,
      <<"A", "S", "C", "I", "I">>,
      <<"C", "P", "U">>,
      <<"C", "S", "S">>,
      <<"D", "N", "S">>,
      <<"E", "O", "F">>,
      <<"G", "U", "I", "D">>,
      <<"H", "T", "M", "L">>,
      <<"H", "T", "T", "P">>,
      <<"H", "T", "T", "P", "S">>,
      <<"I", "D">>,
      <<"I", "P">>,
      <<"J", "S", "O", "N">>,
      <<"L", "H", "S">>,
      <<"Q", "P", "S">>,
      <<"R", "A", "M">>,
      <<"R", "H", "S">>,
      <<"R", "P", "C">>,
      <<"S", "L", "A">>,
      <<"S", "M", "T", "P">>,
      <<"S", "Q", "L">>,
      <<"S", "S", "H">>,
      <<"T", "C", "P">>,
      <<"T", "L", "S">>,
      <<"T", "T", "L">>,
      <<"U", "D", "P">>,
      <<"U", "I">>,
      <<"U", "I", "D">>,
      <<"U", "U", "I", "D">>,
      <<"U", "R", "I">>,
      <<"U", "R", "L">>,
      <<"U", "T", "F", "8">>,
      <<"V", "M">>,
      <<"X", "M", "L">>,
      <<"X", "S", "R", "F">>,
      <<"X", "S", "S">> }

\* The longest candidate prefix startsWithInitialism tries.
LongestInitialism == 5

\* The loop of startsWithInitialism from candidate length i on: a later,
\* longer match overwrites an earlier one.
RECURSIVE swiLoop(_, _, _)
swiLoop(s, i, initialism) ==
    IF i > LongestInitialism
    THEN initialism
    ELSE swiLoop(s, i + 1,
                 IF Len(s) > i - 1 /\ Slice(s, 0, i) \in commonInitialisms
                 THEN Slice(s, 0, i)
                 ELSE initialism)

\* startsWithInitialism were it to return at the first match: the shortest
\* initialism s begins with.
startsWithInitialismFirst(s) ==
    LET lengths == {i \in 1..LongestInitialism :
                       Len(s) > i - 1 /\ Slice(s, 0, i) \in commonInitialisms}
    IN  IF lengths = {}
        THEN <<>>
        ELSE Slice(s, 0, CHOOSE i \in lengths : \A j \in lengths : i <= j)

\* The initialism s begins with, "" (the empty sequence) when it begins with none.
startsWithInitialism(s) == swiLoop(s, 1, <<>>)

\* The scan of CamelToSnake before its first iteration.
CtsStart == [i |-> 0, lastPos |-> 0, words |-> <<>>]

\* One iteration of the scan of CamelToSnake at offset st.i, the loop's i++
\* included.
CtsBody(s, st) ==
    IF st.i > 0 /\ IsUpper(s[st.i + 1])
    THEN LET initialism == startsWithInitialism(SliceFrom(s, st.lastPos))
         IN  IF initialism # <<>>
             THEN [i       |-> (st.i + Len(initialism) - 1) + 1,
                   lastPos |-> st.i + Len(initialism) - 1,
                   words   |-> Append(st.words, initialism)]
             ELSE [i       |-> st.i + 1,
                   lastPos |-> st.i,
                   words   |-> Append(st.words, Slice(s, st.lastPos, st.i))]
    ELSE [st EXCEPT !.i = st.i + 1]

\* The scan of CamelToSnake from st to the end of s.
RECURSIVE CtsRun(_, _)
CtsRun(s, st) == IF st.i < Len(s) THEN CtsRun(s, CtsBody(s, st)) ELSE st

\* The words after the scan: the trailing segment is a word unless it is empty.
CtsWords(s, st) ==
    IF SliceFrom(s, st.lastPos) # <<>>
    THEN Append(st.words, SliceFrom(s, st.lastPos))
    ELSE st.words

\* The words lowercased and joined with "_".
RECURSIVE JoinLower(_, _, _)
JoinLower(ws, k, result) ==
    IF k > Len(ws)
    THEN result
    ELSE JoinLower(ws, k + 1,
                   (IF k > 1 THEN result \o <<"_">> ELSE result) \o ToLower(ws[k]))

CamelToSnake(s) == JoinLower(CtsWords(s, CtsRun(s, CtsStart)), 1, <<>>)

\* ------------------------------------------------------------------- tags

\* The character class of tagRegex, [0-9a-zA-Z,_=&\(\)].
TagClass ==
    Range(Digits) \cup Range(LowerLetters) \cup Range(UpperLetters)
        \cup {",", "_", "=", "&", "(", ")"}

\* The offset after the longest run of class characters that starts at offset p.
RECURSIVE RunEnd(_, _)
RunEnd(input, p) ==
    IF p < Len(input) /\ input[p + 1] \in TagClass THEN RunEnd(input, p + 1) ELSE p

\* The match of tagRegex that starts at offset p, where input[p] is a class
\* character: submatch 1 (key), submatch 4 (value, "" when the optional group
\* did not take part) and the offset after the match. Both repetitions are
\* greedy and are followed by a character outside the class, so neither gives
\* anything back; ( )? takes a space when there is one.
MatchAt(input, p) ==
    LET q      == RunEnd(input, p)
        colon  == q < Len(input) /\ input[q + 1] = ":"
        r      == IF colon /\ q + 1 < Len(input) /\ input[q + 2] = " "
                  THEN q + 2 ELSE q + 1
        opened == colon /\ r < Len(input) /\ input[r + 1] = "\""
        e      == RunEnd(input, r + 1)
        closed == opened /\ e < Len(input) /\ input[e + 1] = "\""
    IN  IF closed
        THEN [key |-> Slice(input, p, q), value |-> Slice(input, r + 1, e), end |-> e + 1]
        ELSE [key |-> Slice(input, p, q), value |-> <<>>, end |-> q]

\* tagRegex.FindAllStringSubmatch(input, -1) from offset p on: the leftmost
\* matches, none overlapping, as [key, value] in the order found.
RECURSIVE FindAllFrom(_, _)
FindAllFrom(input, p) ==
    IF p >= Len(input)
    THEN <<>>
    ELSE IF input[p + 1] \notin TagClass
         THEN FindAllFrom(input, p + 1)
         ELSE LET m == MatchAt(input, p)
              IN  <<[key |-> m.key, value |-> m.value]>> \o FindAllFrom(input, m.end)

\* A Go map[string]string is a function from its keys; m[key] = value.
MapSet(m, key, value) ==
    [k \in DOMAIN m \cup {key} |-> IF k = key THEN value ELSE m[k]]

EmptyMap == [k \in {} |-> <<>>]

\* The loop of tagParser over the matches from the k-th on.
RECURSIVE tagParserLoop(_, _, _)
tagParserLoop(list, k, tags) ==
    IF k > Len(list)
    THEN tags
    ELSE tagParserLoop(list, k + 1, MapSet(tags, list[k].key, list[k].value))

tagParser(input) == tagParserLoop(FindAllFrom(input, 0), 1, EmptyMap)

\* The orders in which a range over a map with these keys can visit them: Go
\* leaves the iteration order of a map unspecified.
MapOrders(keys) ==
    {o \in [1..Cardinality(keys) -> keys] :
        \A a, b \in 1..Cardinality(keys) : o[a] = o[b] => a = b}

\* The loop of tagString visiting the keys in this order, from the k-th on.
RECURSIVE tagStringLoop(_, _, _, _)
tagStringLoop(tags, order, k, output) ==
    IF k > Len(order)
    THEN output
    ELSE tagStringLoop(tags, order, k + 1,
             IF tags[order[k]] = <<>>
             THEN output \o <<" ">> \o order[k]
             ELSE output \o <<" ">> \o order[k] \o <<":", "\"">> \o tags[order[k]] \o <<"\"">>)

\* strings.TrimPrefix.
TrimPrefix(s, p) == IF HasPrefix(s, p) THEN SliceFrom(s, Len(p)) ELSE s

\* tagString when the range over tags visits the keys in this order.
tagStringIn(tags, order) == TrimPrefix(tagStringLoop(tags, order, 1, <<>>), <<" ">>)

\* Every string tagString(tags) can return.
tagString(tags) == {tagStringIn(tags, o) : o \in MapOrders(DOMAIN tags)}

JSON == <<"j", "s", "o", "n">>

\* fieldTags were it to replace a json value that begins with "," by the
\* derived name, the options lost.
fieldTagsDropOptions(fieldName, tagValue) ==
    LET tags == tagParser(tagValue)
    IN  IF JSON \in DOMAIN tags
        THEN IF HasPrefix(tags[JSON], <<",">>)
             THEN MapSet(tags, JSON, CamelToSnake(fieldName))
             ELSE tags
        ELSE MapSet(tags, JSON, CamelToSnake(fieldName))

\* fieldTags were it to set the json value to the derived name whatever the
\* tag says.
fieldTagsAlwaysDerived(fieldName, tagValue) ==
    MapSet(tagParser(tagValue), JSON, CamelToSnake(fieldName))

\* fieldTags were it to put the derived name before every json value, not
\* only before one that begins with ",".
fieldTagsAlwaysPrefix(fieldName, tagValue) ==
    LET tags == tagParser(tagValue)
    IN  IF JSON \in DOMAIN tags
        THEN MapSet(tags, JSON, CamelToSnake(fieldName) \o tags[JSON])
        ELSE MapSet(tags, JSON, CamelToSnake(fieldName))

\* The tags of a field of the mirror type (main, lines 129-137): the parsed
\* tags with the json entry set when absent, prefixed when it begins with ",".
fieldTags(fieldName, tagValue) ==
    LET tags == tagParser(tagValue)
    IN  IF JSON \in DOMAIN tags
        THEN IF HasPrefix(tags[JSON], <<",">>)
             THEN MapSet(tags, JSON, CamelToSnake(fieldName) \o tags[JSON])
             ELSE tags
        ELSE MapSet(tags, JSON, CamelToSnake(fieldName))

\* ------------------------------------------------------------------ state

VARIABLES
    cts,        \* a call of CamelToSnake: s, i, lastPos, words, result, pc
    fld,        \* one field of a struct on its way into the mirror type
    pc,         \* where main is
    typeNames,  \* the -type flag, split at its commas
    args,       \* flag.Args(): what the file system holds at each path
    world,      \* what the run has read of the directory and of gofmt
    pkg,        \* g.pkg
    buf,        \* g.buf
    src,        \* the bytes main hands to WriteFile
    outFile,    \* the output file on disk
    exitCode,   \* the exit status once the process has ended
    log,        \* what was logged
    run,        \* 1 in the first run over the input, 2 in the second
    prevOut,    \* the file the first run wrote
    output,     \* the -output flag
    pos         \* the file main parses next, the declaration it generates next

mainVars ==
    <<pc, typeNames, args, world, pkg, buf, src, outFile, exitCode, log, run, prevOut,
      output, pos>>

vars == <<cts, fld, mainVars>>

\* A value that may be missing is a sequence of it, or the empty sequence.
None == <<>>

Some(v) == <<v>>

\* g.pkg before the directory is imported.
NoPackage == [Dir |-> "", name |-> "", Files |-> <<>>]

NoCall == [pc |-> "idle"]

NoField == [pc |-> "idle"]

\* main is not running.
MainIdle ==
    /\ pc = "idle"
    /\ typeNames = <<>>
    /\ args = <<>>
    /\ world = [dir |-> None, formatOk |-> None]
    /\ pkg = NoPackage
    /\ buf = <<>>
    /\ src = None
    /\ outFile = None
    /\ exitCode = None
    /\ log = <<>>
    /\ run = 1
    /\ prevOut = None
    /\ output = <<>>
    /\ pos = 0

\* ------------------------------------------------- CamelToSnake, by steps

\* The sequences over alphabet of length 1 to n.
RECURSIVE SeqsUpTo(_, _)
SeqsUpTo(alphabet, n) ==
    IF n = 0
    THEN {}
    ELSE LET shorter == SeqsUpTo(alphabet, n - 1)
         IN  {<<c>> : c \in alphabet} \cup shorter
                \cup {w \o <<c>> : w \in shorter, c \in alphabet}

MaxIdentLen == 3

IdentAlphabet == {"U", "I", "D", "s"}

UserID == <<"U", "s", "e", "r", "I", "D">>

HTTPServer == <<"H", "T", "T", "P", "S", "e", "r", "v", "e", "r">>

ID == <<"I", "D">>

APIKeyID == <<"A", "P", "I", "K", "e", "y", "I", "D">>

UIDValue == <<"U", "I", "D", "V", "a", "l", "u", "e">>

HTTPSProxy == <<"H", "T", "T", "P", "S", "P", "r", "o", "x", "y">>

UserName == <<"U", "s", "e", "r", "N", "a", "m", "e">>

\* The identifiers CamelToSnake is called with.
Identifiers ==
    SeqsUpTo(IdentAlphabet, MaxIdentLen)
        \cup {UserID, HTTPServer, ID, APIKeyID, UIDValue, HTTPSProxy, UserName}

SnakeInit ==
    /\ \E s \in Identifiers :
          cts = [s |-> s, i |-> 0, lastPos |-> 0, words |-> <<>>,
                 result |-> <<>>, pc |-> "scan"]
    /\ fld = NoField
    /\ MainIdle

\* One iteration of the loop of CamelToSnake (lines 267-279).
CtsIterate ==
    /\ cts.pc = "scan"
    /\ cts.i < Len(cts.s)
    /\ LET st == CtsBody(cts.s, [i |-> cts.i, lastPos |-> cts.lastPos, words |-> cts.words])
       IN  cts' = [cts EXCEPT !.i = st.i, !.lastPos = st.lastPos, !.words = st.words]
    /\ UNCHANGED <<fld, mainVars>>

\* The end of CamelToSnake (lines 280-289).
CtsReturn ==
    /\ cts.pc = "scan"
    /\ cts.i >= Len(cts.s)
    /\ LET st == [i |-> cts.i, lastPos |-> cts.lastPos, words |-> cts.words]
       IN  cts' = [cts EXCEPT !.words = CtsWords(cts.s, st),
                              !.result = JoinLower(CtsWords(cts.s, st), 1, <<>>),
                              !.pc = "done"]
    /\ UNCHANGED <<fld, mainVars>>

SnakeNext == CtsIterate \/ CtsReturn

SpecSnake == SnakeInit /\ [][SnakeNext]_vars

\* ------------------------------------------------ one field, by its steps

DB == <<"d", "b">>

\* The entries a source tag is written from: a bare key, key:"value", or
\* key: "value" (the space tagRegex allows). A value may hold a character
\* outside the class of tagRegex ("-").
TagEntries ==
    {[key |-> JSON, form |-> "bare", value |-> <<>>],
     [key |-> JSON, form |-> "kv", value |-> <<>>],
     [key |-> JSON, form |-> "kv", value |-> <<",", "o">>],
     [key |-> JSON, form |-> "kv", value |-> <<"n">>],
     [key |-> JSON, form |-> "ksv", value |-> <<"n", "2">>],
     [key |-> JSON, form |-> "kv", value |-> <<"-">>],
     [key |-> DB, form |-> "bare", value |-> <<>>],
     [key |-> DB, form |-> "kv", value |-> <<"c">>],
     [key |-> DB, form |-> "kv", value |-> <<"x", "-", "j", "s", "o", "n">>]}

\* An entry as the source file spells it.
EntryText(e) ==
    CASE e.form = "bare" -> e.key
      [] e.form = "kv"   -> e.key \o <<":", "\"">> \o e.value \o <<"\"">>
      [] e.form = "ksv"  -> e.key \o <<":", " ", "\"">> \o e.value \o <<"\"">>

\* The entries joined with single spaces.
RECURSIVE TagText(_)
TagText(entries) ==
    IF entries = <<>>
    THEN <<>>
    ELSE IF Len(entries) = 1
         THEN EntryText(entries[1])
         ELSE EntryText(entries[1]) \o <<" ">> \o TagText(Tail(entries))

\* field.Tag of a field without a tag.
NoTag == <<>>

\* The back quote character (a TLA+ string cannot hold one).
BackQuote == "BQ"

\* The tag literal of the source file, field.Tag.Value, written as a raw
\* string: the text in back quotes.
TagLiteral(text) == <<BackQuote>> \o text \o <<BackQuote>>

\* The text with its double quotes escaped.
RECURSIVE Escaped(_)
Escaped(text) ==
    IF text = <<>>
    THEN <<>>
    ELSE (IF Head(text) = "\"" THEN <<"\\", "\"">> ELSE <<Head(text)>>)
           \o Escaped(Tail(text))

\* The tag literal written as an interpreted string: the escaped text in
\* double quotes. field.Tag.Value is the literal as the file spells it.
InterpretedTagLiteral(text) == <<"\"">> \o Escaped(text) \o <<"\"">>

\* The ways a field is given its tag.
LiteralKinds == {"none", "raw", "interpreted"}

LiteralOf(kind, text) ==
    CASE kind = "none"        -> NoTag
      [] kind = "raw"         -> TagLiteral(text)
      [] kind = "interpreted" -> InterpretedTagLiteral(text)

\* The sequences over S of length 0 to n.
SeqsFromZero(S, n) == {<<>>} \cup SeqsUpTo(S, n)

MaxTagEntries == 2

\* The tags a field is declared with, as entries.
SourceTags == SeqsFromZero(TagEntries, MaxTagEntries)

\* A name with an underscore and a digit.
A_1 == <<"A", "_", "1">>

FieldNames == {ID, UserName, HTTPServer, A_1}

\* tagValue of a field (main, lines 125-128): "" without a tag, else the
\* literal without its quotes.
tagValueOf(tag) == IF tag = NoTag THEN <<>> ELSE Slice(tag, 1, Len(tag) - 1)

TagInit ==
    /\ \E n \in FieldNames, entries \in SourceTags, kind \in LiteralKinds :
          /\ entries = <<>> \/ kind # "none"
          /\ fld = [name |-> n, entries |-> entries, literal |-> kind,
                    tag |-> LiteralOf(kind, TagText(entries)),
                    tags |-> EmptyMap, prevTags |-> EmptyMap, emitted |-> <<>>,
                    round |-> 1, pc |-> "field"]
    /\ cts = NoCall
    /\ MainIdle

\* The tags of the field of the mirror type are computed (main, lines 125-137).
FieldSynthesize ==
    /\ fld.pc = "field"
    /\ fld' = [fld EXCEPT !.tags = fieldTags(fld.name, tagValueOf(fld.tag)),
                          !.pc = "print"]
    /\ UNCHANGED <<cts, mainVars>>

\* The tag of the field of the mirror type is printed (main, line 139).
FieldPrint ==
    /\ fld.pc = "print"
    /\ \E out \in tagString(fld.tags) :
          fld' = [fld EXCEPT !.emitted = out, !.pc = "emitted"]
    /\ UNCHANGED <<cts, mainVars>>

\* The generator is given the field as it printed it: the tag of the mirror
\* type is the tag of the source.
FieldAgain ==
    /\ fld.pc = "emitted"
    /\ fld.round = 1
    /\ fld' = [fld EXCEPT !.tag = TagLiteral(fld.emitted), !.literal = "raw",
                          !.prevTags = fld.tags,
                          !.round = 2, !.pc = "field"]
    /\ UNCHANGED <<cts, mainVars>>

TagNext == FieldSynthesize \/ FieldPrint \/ FieldAgain

SpecTag == TagInit /\ [][TagNext]_vars

\* ------------------------------------------------------------------- main

User == <<"U", "s", "e", "r">>

Admin == <<"A", "d", "m", "i", "n">>

\* A field without a tag, with a tag of the given entries, of a type that is
\* a plain identifier or not (a pointer, a slice, a map, a qualified name);
\* an embedded field has no name.
Field(names, ident, type, tag) ==
    [names |-> names, ident |-> ident, type |-> type, tag |-> tag]

OmitEmpty == [key |-> JSON, form |-> "kv", value |-> <<",", "o">>]

Explicit == [key |-> JSON, form |-> "kv", value |-> <<"n">>]

\* The field declarations the structs of the package are made of.
FieldDecls ==
    {Field(<<ID>>, TRUE, "int", NoTag),
     Field(<<UserName>>, TRUE, "string", TagLiteral(TagText(<<OmitEmpty>>))),
     Field(<<<<"N">>>>, TRUE, "string",
           TagLiteral(TagText(<<Explicit, [key |-> DB, form |-> "kv", value |-> <<"c">>]>>))),
     Field(<<<<"P">>>>, FALSE, "*User", NoTag),
     Field(<<>>, TRUE, "Base", NoTag)}

MaxFields == 2

\* The field lists of a struct: no two fields of one name.
FieldLists ==
    {fs \in SeqsFromZero(FieldDecls, MaxFields) :
        \A a, b \in DOMAIN fs : fs[a].names = fs[b].names => a = b}

\* The declarations of a file: a function, a var, a type that is no struct,
\* a struct.
FuncDecl == [kind |-> "func", name |-> <<>>, struct |-> FALSE, fields |-> <<>>]

VarDecl == [kind |-> "var", name |-> <<>>, struct |-> FALSE, fields |-> <<>>]

TypeDecl(name) == [kind |-> "type", name |-> name, struct |-> FALSE, fields |-> <<>>]

StructDecl(name, fields) == [kind |-> "type", name |-> name, struct |-> TRUE, fields |-> fields]

\* A file go/parser rejects.
BadFile == [ok |-> FALSE, decls |-> <<>>]

\* A file that parses to these declarations.
GoFile(decls) == [ok |-> TRUE, decls |-> decls]

IDField == Field(<<ID>>, TRUE, "int", NoTag)

\* The Go files of the directory, each the declarations it parses to: none
\* (a directory of test files only), one struct, a struct after other
\* declarations, a struct beside a second struct, and a file that does not
\* parse, alone or after one that does.
Packages ==
    {<<>>, <<BadFile>>}
        \cup {<<GoFile(<<StructDecl(User, fs)>>)>> : fs \in FieldLists}
        \cup {<<GoFile(<<FuncDecl, VarDecl, TypeDecl(Admin)>>), GoFile(<<StructDecl(User, fs)>>)>> :
                 fs \in FieldLists}
        \cup {<<GoFile(<<StructDecl(User, fs)>>), GoFile(<<StructDecl(Admin, <<IDField>>)>>)>> :
                 fs \in FieldLists}
        \cup {<<GoFile(<<StructDecl(User, fs)>>), BadFile>> : fs \in FieldLists}

\* What build.Default.ImportDir can find: an error, or the Go files.
Directories ==
    {[err |-> TRUE, files |-> <<>>]} \cup {[err |-> FALSE, files |-> fs] : fs \in Packages}

\* The values of the -type flag.
TypeNameLists == {<<>>, <<User>>, <<User, Admin>>}

\* The values of flag.Args(), each path named by what os.Stat finds there.
ArgLists == {<<>>, <<"dir">>, <<"file">>, <<"missing">>, <<"dir", "dir">>}

\* The values of the -output flag: "" (the default) or a file name.
OutputFlags == {<<>>, <<"o", ".", "g", "o">>}

\* What was not read yet is read now; what was read stays as it was read.
Observe(seen, values) == IF seen = None THEN values ELSE {seen[1]}

Init ==
    /\ pc = "flags"
    /\ typeNames \in TypeNameLists
    /\ args \in ArgLists
    /\ world = [dir |-> None, formatOk |-> None]
    /\ pkg = NoPackage
    /\ buf = <<>>
    /\ src = None
    /\ outFile = None
    /\ exitCode = None
    /\ log = <<>>
    /\ run = 1
    /\ prevOut = None
    /\ output \in OutputFlags
    /\ pos = 0
    /\ cts = NoCall
    /\ fld = NoField

\* os.Exit(code), also from log.Fatal and from a panic.
Exit(code) ==
    /\ pc' = "exit"
    /\ exitCode' = Some(code)

\* log.Fatalf: the message, then os.Exit(1).
Fatal(message) ==
    /\ log' = Append(log, message)
    /\ Exit(1)

\* The -type flag is checked (lines 39-43).
CheckTypeNames ==
    /\ pc = "flags"
    /\ IF Len(typeNames) = 0
       THEN /\ log' = Append(log, "usage")
            /\ Exit(2)
       ELSE /\ pc' = "args"
            /\ UNCHANGED <<log, exitCode>>
    /\ UNCHANGED <<typeNames, args, output, world, pkg, pos, buf, src, outFile, run, prevOut, cts, fld>>

\* args after the default of lines 46-49.
ArgsOrDot == IF Len(args) = 0 THEN <<"dir">> ELSE args

\* CheckArgs were it to take any one argument for a directory.
CheckArgsAnyPath ==
    /\ pc = "args"
    /\ IF Len(ArgsOrDot) = 1
       THEN /\ pc' = "import"
            /\ UNCHANGED <<log, exitCode>>
       ELSE Fatal("not supported files")
    /\ UNCHANGED <<typeNames, args, output, world, pkg, pos, buf, src, outFile, run, prevOut, cts, fld>>

\* The arguments are checked (lines 45-53 and 71-74, isDirectory).
CheckArgs ==
    /\ pc = "args"
    /\ IF Len(ArgsOrDot) = 1
       THEN IF ArgsOrDot[1] = "missing"
            THEN Fatal("stat")
            ELSE IF ArgsOrDot[1] = "dir"
                 THEN /\ pc' = "import"
                      /\ UNCHANGED <<log, exitCode>>
                 ELSE Fatal("not supported files")
       ELSE Fatal("not supported files")
    /\ UNCHANGED <<typeNames, args, output, world, pkg, pos, buf, src, outFile, run, prevOut, cts, fld>>

\* The directory the generator works in: "." without an argument.
DirName == IF Len(args) = 0 THEN "." ELSE "dir"

\* The header main prints (lines 76-80).
Header == [kind |-> "header", package |-> "models"]

\* The directory is imported and the header printed (lines 54-80).
ImportDir ==
    /\ pc = "import"
    /\ \E d \in Observe(world.dir, Directories) :
          /\ world' = [world EXCEPT !.dir = Some(d)]
          /\ IF d.err
             THEN /\ Fatal("cannot process directory")
                  /\ UNCHANGED <<pkg, buf>>
             ELSE /\ pkg' = [Dir |-> DirName, name |-> "models",
                             Files |-> [k \in 1..Len(d.files) |-> [Name |-> k, AstFile |-> None]]]
                  /\ buf' = Append(buf, Header)
                  /\ pc' = IF Len(d.files) = 0 THEN "format" ELSE "parse"
                  /\ UNCHANGED <<log, exitCode>>
    /\ pos' = 1
    /\ UNCHANGED <<typeNames, args, output, src, outFile, run, prevOut, cts, fld>>

\* The declarations of the parsed files, in the order main ranges over them
\* (lines 91-92).
RECURSIVE DeclsOf(_)
DeclsOf(files) ==
    IF files = <<>> THEN <<>> ELSE Head(files).AstFile[1] \o DeclsOf(Tail(files))

\* One file is parsed (lines 83-89).
ParseFile ==
    /\ pc = "parse"
    /\ LET file == world.dir[1].files[pos]
       IN  IF ~file.ok
           THEN /\ Fatal("parsing package")
                /\ UNCHANGED <<pkg, pos>>
           ELSE /\ pkg' = [pkg EXCEPT !.Files[pos].AstFile = Some(file.decls)]
                /\ IF pos < Len(pkg.Files)
                   THEN /\ pos' = pos + 1
                        /\ pc' = "parse"
                   ELSE /\ pos' = 1
                        /\ pc' = IF DeclsOf(pkg'.Files) = <<>> THEN "format" ELSE "generate"
                /\ UNCHANGED <<log, exitCode>>
    /\ UNCHANGED <<typeNames, args, output, world, buf, src, outFile, run, prevOut, cts, fld>>

\* contains(list, key).
contains(list, key) == \E k \in DOMAIN list : list[k] = key

\* fieldNames of a struct (lines 115-118): the first name of every field.
fieldNamesOf(fields) == [k \in DOMAIN fields |-> fields[k].names[1]]

\* The field lines main can print for these fields (lines 116-141): none for
\* a field whose type is no plain identifier, and for the others the name,
\* the type and the tag, in any of the orders tagString can give its entries.
RECURSIVE mirrorFields(_)
mirrorFields(fields) ==
    IF fields = <<>>
    THEN {<<>>}
    ELSE LET field == Head(fields)
             rest  == mirrorFields(Tail(fields))
         IN  IF ~field.ident
             THEN rest
             ELSE {<<[name |-> field.names[1], type |-> field.type, tag |-> t]>> \o r :
                      t \in tagString(fieldTags(field.names[1], tagValueOf(field.tag))),
                      r \in rest}

\* What main prints for a struct (lines 113-161): the mirror type, the
\* MarshalJSON method and the constructor with one copy per field name.
Generated(name, mirror, fieldNames) ==
    <<[kind |-> "type", name |-> name, fields |-> mirror],
      [kind |-> "MarshalJSON", name |-> name],
      [kind |-> "New", name |-> name, copies |-> fieldNames]>>

\* One declaration of the parsed files is gone through (lines 92-162).
GenerateDecl ==
    /\ pc = "generate"
    /\ LET decl == DeclsOf(pkg.Files)[pos]
           step == /\ pos' = pos + 1
                   /\ pc' = IF pos < Len(DeclsOf(pkg.Files)) THEN "generate" ELSE "format"
                   /\ UNCHANGED <<log, exitCode>>
       IN  IF decl.kind # "type"
           THEN step /\ UNCHANGED buf
           ELSE IF ~contains(typeNames, decl.name)
                THEN step /\ UNCHANGED buf
                ELSE IF ~decl.struct
                     THEN step /\ UNCHANGED buf
                     ELSE IF \E k \in DOMAIN decl.fields : decl.fields[k].names = <<>>
                          THEN \* field.Names[0] of an embedded field: index out of range
                               /\ log' = Append(log, "panic")
                               /\ Exit(2)
                               /\ UNCHANGED <<buf, pos>>
                          ELSE /\ \E mirror \in mirrorFields(decl.fields) :
                                     buf' = buf \o Generated(decl.name, mirror,
                                                             fieldNamesOf(decl.fields))
                               /\ step
    /\ UNCHANGED <<typeNames, args, output, world, pkg, src, outFile, run, prevOut, cts, fld>>

\* format.Source on a buffer it accepts: the text in canonical form.
Gofmt(text) == [gofmt |-> TRUE, text |-> text]

\* g.buf.Bytes(): the text as printed.
Bytes(text) == [gofmt |-> FALSE, text |-> text]

\* format were it to return, on an error, the src of format.Source (nil).
formatReturnsNil(b, accepted) ==
    IF ~accepted
    THEN [src |-> Bytes(<<>>),
          log |-> <<"warning: internal error: invalid Go generated",
                    "warning: compile the package to analyze the error">>]
    ELSE [src |-> Gofmt(b), log |-> <<>>]

\* Generator.format (lines 191-201): what it returns and what it logs, when
\* format.Source accepts the buffer and when it does not.
format(b, accepted) ==
    IF ~accepted
    THEN [src |-> Bytes(b),
          log |-> <<"warning: internal error: invalid Go generated",
                    "warning: compile the package to analyze the error">>]
    ELSE [src |-> Gofmt(b), log |-> <<>>]

\* The buffer is formatted (line 167).
Format ==
    /\ pc = "format"
    /\ \E accepted \in Observe(world.formatOk, BOOLEAN) :
          /\ world' = [world EXCEPT !.formatOk = Some(accepted)]
          /\ src' = Some(format(buf, accepted).src)
          /\ log' = log \o format(buf, accepted).log
    /\ pc' = "write"
    /\ UNCHANGED <<typeNames, args, output, pkg, pos, buf, outFile, exitCode, run, prevOut, cts, fld>>

\* The name of the output file (lines 170-174).
outputName ==
    IF output = <<>>
    THEN [dir |-> pkg.Dir, base |-> ToLower(typeNames[1] \o <<"_", "j", "s", "o", "n", ".", "g", "o">>)]
    ELSE [dir |-> "", base |-> output]

\* The file WriteFile leaves when all of data is written, and when it gave up
\* after it had opened the file.
Written(name, data) == [name |-> name, data |-> data, complete |-> TRUE]

Truncated(name) == [name |-> name, data |-> Bytes(<<>>), complete |-> FALSE]

\* The output file is written (lines 175-178).
WriteFile ==
    /\ pc = "write"
    /\ \/ /\ outFile' = Some(Written(outputName, src[1]))
          /\ pc' = "done"
          /\ exitCode' = Some(0)
          /\ UNCHANGED log
       \/ /\ outFile' \in {outFile, Some(Truncated(outputName))}
          /\ Fatal("writing output")
    /\ UNCHANGED <<typeNames, args, output, world, pkg, pos, buf, src, run, prevOut, cts, fld>>

\* The generator is run a second time over the same flags, the same directory
\* and the same gofmt. (The file the first run wrote declares <T>JSON types
\* and functions only, none of them a requested type.)
Rerun ==
    /\ pc = "done"
    /\ run = 1
    /\ run' = 2
    /\ prevOut' = outFile
    /\ pc' = "flags"
    /\ pkg' = NoPackage
    /\ pos' = 0
    /\ buf' = <<>>
    /\ src' = None
    /\ exitCode' = None
    /\ log' = <<>>
    /\ UNCHANGED <<typeNames, args, output, world, outFile, cts, fld>>

Next ==
    \/ CheckTypeNames
    \/ CheckArgs
    \/ ImportDir
    \/ ParseFile
    \/ GenerateDecl
    \/ Format
    \/ WriteFile
    \/ Rerun

Spec == Init /\ [][Next]_vars

\* ------------------------------------------------------------ properties

\* The initialisms t begins with.
InitialismsAt(t) == {w \in commonInitialisms : HasPrefix(t, w)}

\* The longest sequence of a set holding one longer than the others.
Longest(S) == CHOOSE w \in S : \A v \in S : Len(v) <= Len(w)

\* The concatenation of the first k words.
RECURSIVE Concat(_, _)
Concat(ws, k) == IF k = 0 THEN <<>> ELSE Concat(ws, k - 1) \o ws[k]

\* The text split at its spaces.
RECURSIVE SplitAtSpaces(_, _, _)
SplitAtSpaces(text, k, word) ==
    IF k > Len(text)
    THEN <<word>>
    ELSE IF text[k] = " "
         THEN <<word>> \o SplitAtSpaces(text, k + 1, <<>>)
         ELSE SplitAtSpaces(text, k + 1, Append(word, text[k]))

\* The values a printed tag gives a key: "" for the bare key, v for key:"v".
ValuesOf(text, key) ==
    LET tokens == Range(SplitAtSpaces(text, 1, <<>>))
        quoted == key \o <<":", "\"">>
    IN  {<<>> : t \in {u \in tokens : u = key}}
          \cup {Slice(t, Len(quoted), Len(t) - 1) :
                  t \in {u \in tokens : /\ HasPrefix(u, quoted)
                                        /\ Len(u) > Len(quoted)
                                        /\ u[Len(u)] = "\""}}

\* The json entries of a source tag, in the order written.
JsonEntries(entries) == SelectSeq(entries, LAMBDA e : e.key = JSON)

\* The json value of a source tag that has a json entry: that of the last one.
JsonValue(entries) == JsonEntries(entries)[Len(JsonEntries(entries))].value

\* The source tag has no explicit wire name: no json entry, or a json value
\* that begins with ",".
NoWireName(entries) ==
    JsonEntries(entries) = <<>> \/ HasPrefix(JsonValue(entries), <<",">>)

\* The source tag has an explicit wire name: a json value that is not empty
\* and does not begin with ",".
ExplicitWireName(entries) ==
    /\ JsonEntries(entries) # <<>>
    /\ JsonValue(entries) # <<>>
    /\ ~HasPrefix(JsonValue(entries), <<",">>)

\* The tag value the parser is given is in the grammar of tagRegex: the field
\* has no tag or a raw string for one, and every value of the tag is made of
\* the characters of the class.
InGrammar(entries) ==
    /\ fld.literal # "interpreted"
    /\ \A k \in DOMAIN entries : Range(entries[k].value) \subseteq TagClass

\* The field is printed, from the tag of the source file.
FieldEmitted == fld.pc = "emitted" /\ fld.round = 1

\* The json value the claims expect for a field without an explicit wire name.
DerivedValue ==
    CamelToSnake(fld.name)
        \o (IF JsonEntries(fld.entries) = <<>> THEN <<>> ELSE JsonValue(fld.entries))

\* C1: CamelToSnake("UserID") = "user_id", CamelToSnake("HTTPServer") =
\* "http_server", CamelToSnake("ID") = "id" and CamelToSnake("APIKeyID") =
\* "api_key_id".
C1_SpecExamples ==
    cts.pc = "done" =>
        /\ cts.s = UserID => cts.result = <<"u", "s", "e", "r", "_", "i", "d">>
        /\ cts.s = HTTPServer =>
              cts.result = <<"h", "t", "t", "p", "_", "s", "e", "r", "v", "e", "r">>
        /\ cts.s = ID => cts.result = <<"i", "d">>
        /\ cts.s = APIKeyID =>
              cts.result = <<"a", "p", "i", "_", "k", "e", "y", "_", "i", "d">>

\* C2 as claimed: for every field without an explicit wire name (no json
\* entry in the raw tag, or a json value that begins with ","), the json value
\* printed in the mirror type is CamelToSnake(fieldName) followed by the
\* original json value.
C2_DerivedNameEmitted ==
    (FieldEmitted /\ NoWireName(fld.entries)) =>
        /\ fld.tags[JSON] = DerivedValue
        /\ ValuesOf(fld.emitted, JSON) = {DerivedValue}

\* C2 as amended: the same, for every field whose tag is a raw string written
\* in the grammar of tagRegex (every value made of the characters of its
\* class), the json value being that of the last json entry.
C2_DerivedNameEmittedInGrammar ==
    (FieldEmitted /\ InGrammar(fld.entries) /\ NoWireName(fld.entries)) =>
        /\ fld.tags[JSON] = DerivedValue
        /\ ValuesOf(fld.emitted, JSON) = {DerivedValue}

C2_Witness ==
    /\ FieldEmitted
    /\ fld.name = UserName
    /\ fld.entries = <<OmitEmpty>>
    /\ ValuesOf(fld.emitted, JSON)
         = {<<"u", "s", "e", "r", "_", "n", "a", "m", "e", ",", "o">>}

\* C3 as claimed: for every field whose raw tag has an explicit json wire
\* name, the json value printed in the mirror type is the original value.
C3_ExplicitNameKept ==
    (FieldEmitted /\ ExplicitWireName(fld.entries)) =>
        /\ fld.tags[JSON] = JsonValue(fld.entries)
        /\ ValuesOf(fld.emitted, JSON) = {JsonValue(fld.entries)}

\* C3 as amended: the same, for every field whose tag is a raw string written
\* in the grammar of tagRegex, the json value being that of the last json
\* entry.
C3_ExplicitNameKeptInGrammar ==
    (FieldEmitted /\ InGrammar(fld.entries) /\ ExplicitWireName(fld.entries)) =>
        /\ fld.tags[JSON] = JsonValue(fld.entries)
        /\ ValuesOf(fld.emitted, JSON) = {JsonValue(fld.entries)}

C3_Witness ==
    /\ FieldEmitted
    /\ fld.name = UserName
    /\ fld.entries = <<Explicit, [key |-> DB, form |-> "kv", value |-> <<"c">>]>>
    /\ ValuesOf(fld.emitted, JSON) = {<<"n">>}

\* The generated file of a run that ended well.
Output == outFile[1].data

\* C4: two runs over the same input produce the same generated text.
C4_SameOutputTwice ==
    (run = 2 /\ pc = "done") => Output = prevOut[1].data

\* The names of the fields of a printed mirror type.
MirrorNames(item) == {item.fields[k].name : k \in DOMAIN item.fields}

\* C5: the constructor of every generated struct copies the fields of the
\* mirror type and no others.
C5_ConstructorCopiesMirrorFields ==
    \A k \in DOMAIN buf :
        IF buf[k].kind = "New"
        THEN Range(buf[k].copies) = MirrorNames(buf[k - 2])
        ELSE TRUE

\* C6: where the text at the start of a word begins with more than one
\* initialism, startsWithInitialism returns the longest of them and
\* CamelToSnake makes that one the word.
C6_LongestInitialismWins ==
    cts.pc = "done" =>
        /\ Concat(cts.words, Len(cts.words)) = cts.s
        /\ \A k \in DOMAIN cts.words :
              LET t == SliceFrom(cts.s, Len(Concat(cts.words, k - 1)))
              IN  Cardinality(InitialismsAt(t)) > 1 =>
                      /\ startsWithInitialism(t) = Longest(InitialismsAt(t))
                      /\ cts.words[k] = Longest(InitialismsAt(t))

C6_Witness ==
    /\ cts.pc = "done"
    /\ cts.s = UIDValue
    /\ cts.words = <<<<"U", "I", "D">>, <<"V", "a", "l", "u", "e">>>>
    /\ cts.result = <<"u", "i", "d", "_", "v", "a", "l", "u", "e">>

\* C7: the synthesis applied to a tag it printed gives the entries it gave
\* before, the json value among them.
C7_SynthesisIdempotent ==
    (fld.pc \in {"print", "emitted"} /\ fld.round = 2) =>
        /\ fld.tags = fld.prevTags
        /\ fld.tags[JSON] = fld.prevTags[JSON]

C7_Witness ==
    /\ fld.pc = "emitted"
    /\ fld.round = 2
    /\ fld.name = UserName
    /\ fld.entries = <<[key |-> DB, form |-> "kv", value |-> <<"c">>], OmitEmpty>>
    /\ fld.tags[JSON] = <<"u", "s", "e", "r", "_", "n", "a", "m", "e", ",", "o">>
    /\ fld.tags = fld.prevTags

\* The -type list is empty, or the arguments are not one directory.
ConfigurationError == Len(typeNames) = 0 \/ ArgsOrDot # <<"dir">>

\* The directory was read and cannot be imported, or a file of it does not
\* parse.
SourceReadError ==
    /\ world.dir # None
    /\ \/ world.dir[1].err
       \/ \E k \in DOMAIN world.dir[1].files : ~world.dir[1].files[k].ok

\* C8: a run with a configuration error or a source-read error ends with a
\* status that is not 0 and writes no file; WriteFile is reached only with the
\* type list checked, the directory imported and every file parsed.
C8_NoOutputAfterError ==
    /\ (ConfigurationError \/ SourceReadError) =>
          /\ pc \notin {"generate", "format", "write", "done"}
          /\ outFile = None
          /\ pc = "exit" => exitCode \notin {None, Some(0)}
    /\ Len(typeNames) = 0 => pc \in {"flags", "exit"}
    /\ ArgsOrDot # <<"dir">> => pc \in {"flags", "args", "exit"}
    /\ (pc \in {"write", "done"} \/ outFile # None) =>
          /\ Len(typeNames) > 0
          /\ ArgsOrDot = <<"dir">>
          /\ world.dir # None
          /\ ~world.dir[1].err
          /\ \A k \in DOMAIN world.dir[1].files : world.dir[1].files[k].ok
    /\ pc \in {"write", "done"} =>
          /\ Len(pkg.Files) = Len(world.dir[1].files)
          /\ \A k \in DOMAIN pkg.Files : pkg.Files[k].AstFile = Some(world.dir[1].files[k].decls)

C8_Witness ==
    /\ pc = "exit"
    /\ exitCode = Some(1)
    /\ SourceReadError
    /\ ~world.dir[1].err
    /\ log = <<"parsing package">>
    /\ pos = 2
    /\ outFile = None

\* A warning of Generator.format is in the log.
Warned == \E k \in DOMAIN log : log[k] = "warning: internal error: invalid Go generated"

\* C9: when the formatter rejects the buffer, format returns the buffer as
\* it is, a warning is logged and the run goes on to write that buffer; when
\* the formatter accepts it, the formatted bytes are written.
C9_FormatFailureNotFatal ==
    /\ pc \in {"write", "done"} =>
          /\ world.formatOk # None
          /\ src = Some(IF world.formatOk[1] THEN Gofmt(buf) ELSE Bytes(buf))
          /\ Warned <=> ~world.formatOk[1]
    /\ pc = "done" => outFile = Some(Written(outputName, src[1]))
    /\ Warned => \/ pc \in {"write", "done"}
                 \/ pc = "exit" /\ log[Len(log)] = "writing output"

C9_Witness ==
    /\ pc = "done"
    /\ world.formatOk = Some(FALSE)
    /\ Warned
    /\ Len(buf) > 1
    /\ Output = Bytes(buf)

\* C10: after the synthesis the json value of every field names the field: it
\* is not empty and does not begin with ",".
C10_JsonValueNamesField ==
    FieldEmitted =>
        /\ fld.tags[JSON] # <<>>
        /\ ~HasPrefix(fld.tags[JSON], <<",">>)

====
